---- MODULE Spec2Model ----
(***************************************************************************)
(* Issuepedia: the reputation engine (reputationSystem.ts), the routes     *)
(* that drive it (server/routes.ts) and the storage layer with its schema  *)
(* (server/storage.ts).  Every request is a process that walks through its *)
(* handler one database statement (one `await`) at a time, so that         *)
(* requests interleave exactly where the Node event loop lets them.        *)
(***************************************************************************)
EXTENDS Integers, FiniteSets, Sequences, Bags, TLC

\* ------------------------------------------------------------------ bounds
\* requests dispatched in one behaviour
MaxRequests == 2
\* rows the prompts table can hold
MaxPrompts == 4

\* --------------------------------------------------------- program constants
PROMPT_UPVOTED == 10
PROMPT_DOWNVOTED == -2
REVIEW_APPROVED == 15
REVIEW_REJECTED == -5
ACCURATE_REVIEW == 5
FIRST_PROMPT_APPROVED == 50
COMMENT_UPVOTED == 2
\* routes.ts: `user.reputation < 500` (reviews), `< 2000` (techniques)
REVIEW_THRESHOLD == 500
TECHNIQUE_THRESHOLD == 2000
\* BADGE_CONDITIONS.REPUTATION_500 / REPUTATION_2000
BADGE_REPUTATION_500 == 500
BADGE_REPUTATION_2000 == 2000
\* replit.md, Permission Thresholds and Reputation Events: documented, and
\* absent from the server code
UPVOTE_THRESHOLD == 15
DOWNVOTE_THRESHOLD == 125
DOWNVOTE_CAST == -1
DOWNVOTE_REMOVED == 1
FORK_APPROVED == 5

\* ------------------------------------------------------------------ domains
Users == {"u1", "u2", "u3"}
\* request slots: how many requests may be in flight at the same time
Procs == {1, 2}
PromptIds == 1 .. MaxPrompts
\* parent_prompt_id IS NULL
NullId == 0
\* no row under that key
NoPrompt == [absent |-> TRUE]
NoVote == "none"
VoteTypes == {"upvote", "downvote"}
ReviewVotes == {"approve", "reject"}
Statuses == {"draft", "pending_review", "approved", "rejected"}
\* initializeDefaultBadges: the catalogue after start-up
BadgeNames == {"First CoT Prompt", "Reviewer", "Moderator", "First Contribution"}

VARIABLES
  reputation,   \* users.reputation, per user
  prompts,      \* prompts table: id -> row or NoPrompt
  votes,        \* votes table: bag of [userId, promptId, voteType]
  reviews,      \* reviews table: bag of [promptId, reviewerId, vote]
  ledger,       \* reputation_events table: bag of rows (id, createdAt dropped)
  userBadges,   \* user_badges table: userId -> badge name -> number of rows
  links,        \* prompt_technique_links: promptId -> set of technique ids
  techniques,   \* prompt_techniques table: ids of the rows that exist
  req,          \* per request slot: position in the handler and its locals
  served        \* requests dispatched so far

vars == <<reputation, prompts, votes, reviews, ledger, userBadges, links, techniques, req, served>>

\* ------------------------------------------------------------ storage layer
\* getUser(id).reputation
getUser(userId) == reputation[userId]

\* faulty variant: the amount is written over the old value instead of added to it
updateUserReputation_Overwrite(rep, userId, changeAmount) ==
  [rep EXCEPT ![userId] = changeAmount]

\* UPDATE users SET reputation = reputation + changeAmount WHERE id = userId
updateUserReputation(rep, userId, changeAmount) ==
  [rep EXCEPT ![userId] = @ + changeAmount]

\* faulty variant: the new row takes the place of the user's earlier rows
createReputationEvent_Replace(l, eventData) ==
  [e \in {x \in BagToSet(l) : x.userId # eventData.userId} |-> l[e]]
    (+) SetToBag({eventData})

\* INSERT INTO reputation_events
createReputationEvent(l, eventData) == l (+) SetToBag({eventData})

ReputationEvent(userId, eventType, changeAmount, relatedPromptId) ==
  [userId |-> userId, eventType |-> eventType,
   changeAmount |-> changeAmount, relatedPromptId |-> relatedPromptId]

getPrompt(id) == prompts[id]

\* getPrompts({authorId, status}): ids of the matching rows
getPrompts(authorId, status) ==
  {id \in PromptIds : /\ prompts[id] # NoPrompt
                      /\ prompts[id].authorId = authorId
                      /\ prompts[id].status = status}

\* UPDATE prompts SET ...data WHERE id = id (no row: nothing happens)
updatePrompt(ps, id, data) ==
  IF ps[id] = NoPrompt THEN ps
  ELSE [ps EXCEPT ![id] =
          [f \in DOMAIN @ |-> IF f \in DOMAIN data THEN data[f] ELSE @[f]]]

\* the id the next inserted prompt receives (0: the table is full)
NextPromptId ==
  IF \E id \in PromptIds : prompts[id] = NoPrompt
  THEN CHOOSE id \in PromptIds :
         /\ prompts[id] = NoPrompt
         /\ \A other \in PromptIds : prompts[other] = NoPrompt => id <= other
  ELSE NullId

\* the rows of bag v under the key (userId, promptId)
VoteRows(v, userId, promptId) ==
  {r \in BagToSet(v) : r.userId = userId /\ r.promptId = promptId}

\* bag v without the rows in set S
WithoutRows(v, S) == [r \in BagToSet(v) \ S |-> v[r]]

\* faulty variant: a plain INSERT into a table without the primary key
createVote_PlainInsert(v, userId, promptId, voteType) ==
  v (+) SetToBag({[userId |-> userId, promptId |-> promptId, voteType |-> voteType]})

\* INSERT INTO votes ... ON CONFLICT (user_id, prompt_id) DO UPDATE SET vote_type:
\* the row under the key takes the new type; without one, a row is added
createVote(v, userId, promptId, voteType) ==
  WithoutRows(v, VoteRows(v, userId, promptId))
    (+) SetToBag({[userId |-> userId, promptId |-> promptId, voteType |-> voteType]})

\* SELECT ... WHERE user_id = userId AND prompt_id = promptId: the first row
getUserVoteForPrompt(userId, promptId) ==
  IF VoteRows(votes, userId, promptId) = {} THEN NoVote
  ELSE (CHOOSE r \in VoteRows(votes, userId, promptId) : TRUE).voteType

\* DELETE FROM votes WHERE user_id = userId AND prompt_id = promptId
deleteVote(v, userId, promptId) == WithoutRows(v, VoteRows(v, userId, promptId))

\* INSERT INTO reviews
createReview(rs, reviewData) == rs (+) SetToBag({reviewData})

\* faulty variant: a plain INSERT, so that a second row for the key violates the
\* primary key and the statement throws
awardBadge_PlainInsert(ub, userId, badgeId) ==
  IF ub[userId][badgeId] > 0
  THEN [table |-> ub, throws |-> TRUE]
  ELSE [table |-> [ub EXCEPT ![userId][badgeId] = @ + 1], throws |-> FALSE]

\* INSERT INTO user_badges ... ON CONFLICT DO NOTHING, under the primary key
\* (userId, badgeId): the table afterwards, and whether the statement throws
awardBadge(ub, userId, badgeId) ==
  IF ub[userId][badgeId] > 0
  THEN [table |-> ub, throws |-> FALSE]
  ELSE [table |-> [ub EXCEPT ![userId][badgeId] = @ + 1], throws |-> FALSE]

\* getUserBadges(userId).map(ub => ub.badgeId) as a Set
getUserBadges(userId) == {b \in BadgeNames : userBadges[userId][b] > 0}

\* INSERT INTO prompt_technique_links ... ON CONFLICT DO NOTHING
linkPromptToTechnique(ls, promptId, techniqueId) ==
  [ls EXCEPT ![promptId] = @ \cup {techniqueId}]

\* the techniques joined to the prompt's links
getPromptTechniques(promptId) == links[promptId] \cap techniques

\* ------------------------------------------------------- technique names
TechniqueIds == {1, 2, 3, 4}
\* the name each technique row carries, one character per element
TechniqueName(t) ==
  CASE t = 1 -> <<"C","h","a","i","n","-","o","f","-","T","h","o","u","g","h","t">>
    [] t = 2 -> <<"F","e","w","-","S","h","o","t">>
    [] t = 3 -> <<"Z","e","r","o","-","s","h","o","t"," ","c","h","a","i","n","-",
                  "o","f","-","t","h","o","u","g","h","t">>
    [] OTHER -> <<"C","h","a","i","n"," ","o","f"," ","T","h","o","u","g","h","t">>

UpperCase == <<"A","B","C","D","E","F","G","H","I","J","K","L","M",
               "N","O","P","Q","R","S","T","U","V","W","X","Y","Z">>
LowerCase == <<"a","b","c","d","e","f","g","h","i","j","k","l","m",
               "n","o","p","q","r","s","t","u","v","w","x","y","z">>

\* String.prototype.toLowerCase
toLowerCase(str) ==
  [i \in 1 .. Len(str) |->
     IF \E k \in 1 .. Len(UpperCase) : UpperCase[k] = str[i]
     THEN LowerCase[CHOOSE k \in 1 .. Len(UpperCase) : UpperCase[k] = str[i]]
     ELSE str[i]]

\* faulty variant: only a match at the first character counts
includes_AtStart(str, search) ==
  Len(search) <= Len(str) /\ SubSeq(str, 1, Len(search)) = search

\* String.prototype.includes
includes(str, search) ==
  \E i \in 0 .. (Len(str) - Len(search)) :
     SubSeq(str, i + 1, i + Len(search)) = search

ChainOfThought == <<"c","h","a","i","n","-","o","f","-","t","h","o","u","g","h","t">>

\* ---------------------------------------------------------- request slots
Idle ==
  [pc |-> "idle", route |-> "none", userId |-> "none", promptId |-> NullId,
   vote |-> "none", existingVote |-> NoVote, authorId |-> "none",
   changeAmount |-> 0, approvedCount |-> 0, userBadgeIds |-> {},
   cotPrompts |-> {}, body |-> "none", techniqueId |-> 0, status |-> 0,
   crashedAt |-> "none", owed |-> {}, before |-> <<>>]

\* the tables as a request finds them when it is dispatched: kept with the
\* request so that what the request did can be read off when it answers
Snapshot ==
  [reputation |-> reputation, prompts |-> prompts, votes |-> votes,
   reviews |-> reviews, ledger |-> ledger, userBadges |-> userBadges,
   links |-> links, techniques |-> techniques]

At(q, pc) == req[q].pc = pc

\* the request in slot q moves to pc with the locals in `locals` overwritten
\* (a request that is just being dispatched also takes its snapshot)
Goto(q, pc, locals) ==
  req' = [req EXCEPT ![q] =
            [f \in DOMAIN @ |-> IF f = "pc" THEN pc
                                ELSE IF f \in DOMAIN locals THEN locals[f]
                                ELSE IF f = "before" /\ @.pc = "idle" THEN Snapshot
                                ELSE @[f]]]

\* res.status(code).json(...): the handler is over but for the response
Reply(q, code) == Goto(q, "respond", [status |-> code])

\* a new request is dispatched to the free slot q
Dispatch(q) == At(q, "idle") /\ served < MaxRequests /\ served' = served + 1

\* ------------------------------------------------- reputationSystem.ts
\* faulty variant: the previous vote is not reversed
VoteChangeAmount_NoReversal(voteType, previousVoteType) ==
  IF voteType = "upvote" THEN PROMPT_UPVOTED ELSE PROMPT_DOWNVOTED

\* faulty variant: the previous vote is applied once more instead of reversed
VoteChangeAmount_Reapplied(voteType, previousVoteType) ==
  (IF previousVoteType # NoVote
   THEN IF previousVoteType = "upvote" THEN PROMPT_UPVOTED
        ELSE PROMPT_DOWNVOTED
   ELSE 0)
  + (IF voteType = "upvote" THEN PROMPT_UPVOTED ELSE PROMPT_DOWNVOTED)

\* handlePromptVote lines 53-70: reverse the previous vote, apply the new one
VoteChangeAmount(voteType, previousVoteType) ==
  (IF previousVoteType # NoVote
   THEN IF previousVoteType = "upvote" THEN 0 - PROMPT_UPVOTED
        ELSE 0 - PROMPT_DOWNVOTED
   ELSE 0)
  + (IF voteType = "upvote" THEN PROMPT_UPVOTED ELSE PROMPT_DOWNVOTED)

\* `prompt_${voteType}d`
VoteEventType(voteType) == "prompt_" \o voteType \o "d"

\* ---------------------------------------------- POST /api/v1/votes
\* routes.ts 173-180: parse the body, read the caller's existing vote
VoteRequest(q, userId, promptId, voteType) ==
  /\ Dispatch(q)
  /\ Goto(q, "createVote",
          [route |-> "vote", userId |-> userId, promptId |-> promptId,
           vote |-> voteType,
           existingVote |-> getUserVoteForPrompt(userId, promptId)])
  /\ UNCHANGED <<reputation, prompts, votes, reviews, ledger, userBadges, links, techniques>>

\* routes.ts 182: upsert the vote; a prompt id with no row violates the
\* foreign key, the insert throws and the catch block answers 400
VoteCreate(q) ==
  /\ At(q, "createVote")
  /\ IF getPrompt(req[q].promptId) = NoPrompt
     THEN Reply(q, 400) /\ UNCHANGED votes
     ELSE /\ votes' = createVote(votes, req[q].userId, req[q].promptId, req[q].vote)
          /\ Goto(q, "hpv_getPrompt", <<>>)
  /\ UNCHANGED <<reputation, prompts, reviews, ledger, userBadges, links, techniques, served>>

\* handlePromptVote called as the exported function it is, without the route
\* around it; pc "respond" with status 201 then stands for its normal return
HandlePromptVote(q, promptId, voteType, previousVoteType) ==
  /\ Dispatch(q)
  /\ Goto(q, "hpv_getPrompt",
          [route |-> "handlePromptVote", promptId |-> promptId,
           vote |-> voteType, existingVote |-> previousVoteType])
  /\ UNCHANGED <<reputation, prompts, votes, reviews, ledger, userBadges, links, techniques>>

\* faulty variant: without the `if (!prompt) return` guard, reading
\* prompt.authorId of undefined throws
HpvGetPrompt_NoGuard(q) ==
  /\ At(q, "hpv_getPrompt")
  /\ LET prompt == getPrompt(req[q].promptId)
         changeAmount == VoteChangeAmount(req[q].vote, req[q].existingVote)
     IN IF prompt = NoPrompt THEN Reply(q, 400)
        ELSE IF changeAmount # 0
        THEN Goto(q, "hpv_updateReputation",
                  [authorId |-> prompt.authorId, changeAmount |-> changeAmount])
        ELSE Goto(q, "respond",
                  [authorId |-> prompt.authorId, changeAmount |-> changeAmount,
                   status |-> 201])
  /\ UNCHANGED <<reputation, prompts, votes, reviews, ledger, userBadges, links, techniques, served>>

\* handlePromptVote 48-72
HpvGetPrompt(q) ==
  /\ At(q, "hpv_getPrompt")
  /\ LET prompt == getPrompt(req[q].promptId)
         changeAmount == VoteChangeAmount(req[q].vote, req[q].existingVote)
     IN IF prompt = NoPrompt THEN Reply(q, 201)
        ELSE IF changeAmount # 0
        THEN Goto(q, "hpv_updateReputation",
                  [authorId |-> prompt.authorId, changeAmount |-> changeAmount])
        ELSE Goto(q, "respond",
                  [authorId |-> prompt.authorId, changeAmount |-> changeAmount,
                   status |-> 201])
  /\ UNCHANGED <<reputation, prompts, votes, reviews, ledger, userBadges, links, techniques, served>>

\* faulty variant: read-modify-write with the reputation read when the
\* request arrived
HpvUpdateReputation_StaleRead(q) ==
  /\ At(q, "hpv_updateReputation")
  /\ reputation' = [reputation EXCEPT ![req[q].authorId] =
                       req[q].before.reputation[req[q].authorId] + req[q].changeAmount]
  /\ Goto(q, "hpv_createEvent", <<>>)
  /\ UNCHANGED <<prompts, votes, reviews, ledger, userBadges, links, techniques, served>>

\* handlePromptVote 73
HpvUpdateReputation(q) ==
  /\ At(q, "hpv_updateReputation")
  /\ reputation' = updateUserReputation(reputation, req[q].authorId, req[q].changeAmount)
  /\ Goto(q, "hpv_createEvent", <<>>)
  /\ UNCHANGED <<prompts, votes, reviews, ledger, userBadges, links, techniques, served>>

\* handlePromptVote 74-79, then routes.ts 191
HpvCreateEvent(q) ==
  /\ At(q, "hpv_createEvent")
  /\ ledger' = createReputationEvent(ledger,
                 ReputationEvent(req[q].authorId, VoteEventType(req[q].vote),
                                 req[q].changeAmount, req[q].promptId))
  /\ Reply(q, 201)
  /\ UNCHANGED <<reputation, prompts, votes, reviews, userBadges, links, techniques, served>>

\* ---------------------------------------- DELETE /api/v1/votes/:promptId
\* routes.ts 198-202: one statement, then 204
VoteDelete(q, userId, promptId) ==
  /\ Dispatch(q)
  /\ votes' = deleteVote(votes, userId, promptId)
  /\ Goto(q, "respond",
          [route |-> "deleteVote", userId |-> userId, promptId |-> promptId,
           status |-> 204])
  /\ UNCHANGED <<reputation, prompts, reviews, ledger, userBadges, links, techniques>>

\* `review_${vote}d`
ReviewEventType(vote) == "review_" \o vote \o "d"

\* faulty variant: the two amounts are exchanged
ReviewChangeAmount_Swapped(vote) ==
  IF vote = "approve" THEN REVIEW_REJECTED ELSE REVIEW_APPROVED

\* handleReviewSubmission 92-94
ReviewChangeAmount(vote) ==
  IF vote = "approve" THEN REVIEW_APPROVED ELSE REVIEW_REJECTED

\* BADGE_CONDITIONS.FIRST_COT 22-29 over the prompts read at line 19
FIRST_COT(approvedPrompts) ==
  LET cotPrompts ==
        {id \in approvedPrompts :
           \E t \in getPromptTechniques(id) :
              includes(toLowerCase(TechniqueName(t)), ChainOfThought)}
  IN Cardinality(cotPrompts) = 1

\* BADGE_CONDITIONS.REPUTATION_500
REPUTATION_500(userId) == getUser(userId) >= BADGE_REPUTATION_500

\* BADGE_CONDITIONS.REPUTATION_2000
REPUTATION_2000(userId) == getUser(userId) >= BADGE_REPUTATION_2000

\* ---------------------------------------------- POST /api/v1/reviews
\* faulty variant: the reputation gate is left out
ReviewRequest_NoGate(q, userId, promptId, vote) ==
  /\ Dispatch(q)
  /\ Goto(q, "createReview",
          [route |-> "review", userId |-> userId, promptId |-> promptId,
           vote |-> vote])
  /\ UNCHANGED <<reputation, prompts, votes, reviews, ledger, userBadges, links, techniques>>

\* routes.ts 139-149: the reviewer's reputation gate, then the body is parsed
ReviewRequest(q, userId, promptId, vote) ==
  /\ Dispatch(q)
  /\ IF getUser(userId) < REVIEW_THRESHOLD
     THEN Goto(q, "respond",
               [route |-> "review", userId |-> userId, promptId |-> promptId,
                vote |-> vote, status |-> 403])
     ELSE Goto(q, "createReview",
               [route |-> "review", userId |-> userId, promptId |-> promptId,
                vote |-> vote])
  /\ UNCHANGED <<reputation, prompts, votes, reviews, ledger, userBadges, links, techniques>>

\* routes.ts 151: insert the review; a prompt id with no row violates the
\* foreign key, the insert throws and the catch block answers 400
ReviewCreate(q) ==
  /\ At(q, "createReview")
  /\ IF getPrompt(req[q].promptId) = NoPrompt
     THEN Reply(q, 400) /\ UNCHANGED reviews
     ELSE /\ reviews' = createReview(reviews,
                          [promptId |-> req[q].promptId,
                           reviewerId |-> req[q].userId, vote |-> req[q].vote])
          /\ Goto(q, "updatePrompt", <<>>)
  /\ UNCHANGED <<reputation, prompts, votes, ledger, userBadges, links, techniques, served>>

\* faulty variant: the status is set to approved whatever the vote
ReviewUpdatePrompt_AlwaysApproved(q) ==
  /\ At(q, "updatePrompt")
  /\ prompts' = updatePrompt(prompts, req[q].promptId, [status |-> "approved"])
  /\ Goto(q, "hrs_getPrompt", <<>>)
  /\ UNCHANGED <<reputation, votes, reviews, ledger, userBadges, links, techniques, served>>

\* routes.ts 154-158: the review decides the prompt's status
ReviewUpdatePrompt(q) ==
  /\ At(q, "updatePrompt")
  /\ prompts' = updatePrompt(prompts, req[q].promptId,
                  [status |-> IF req[q].vote = "approve" THEN "approved"
                              ELSE "rejected"])
  /\ Goto(q, "hrs_getPrompt", <<>>)
  /\ UNCHANGED <<reputation, votes, reviews, ledger, userBadges, links, techniques, served>>

\* handleReviewSubmission called as the exported function it is
HandleReviewSubmission(q, promptId, reviewerId, vote) ==
  /\ Dispatch(q)
  /\ Goto(q, "hrs_getPrompt",
          [route |-> "handleReviewSubmission", promptId |-> promptId,
           userId |-> reviewerId, vote |-> vote])
  /\ UNCHANGED <<reputation, prompts, votes, reviews, ledger, userBadges, links, techniques>>

\* handleReviewSubmission 88-94
HrsGetPrompt(q) ==
  /\ At(q, "hrs_getPrompt")
  /\ LET prompt == getPrompt(req[q].promptId)
     IN IF prompt = NoPrompt THEN Reply(q, 201)
        ELSE Goto(q, "hrs_updateReputation",
                  [authorId |-> prompt.authorId,
                   changeAmount |-> ReviewChangeAmount(req[q].vote)])
  /\ UNCHANGED <<reputation, prompts, votes, reviews, ledger, userBadges, links, techniques, served>>

\* faulty variant: the reviewer is paid the accurate-review amount as well
HrsUpdateReputation_PaysReviewer(q) ==
  /\ At(q, "hrs_updateReputation")
  /\ reputation' = updateUserReputation(
                      updateUserReputation(reputation, req[q].authorId, req[q].changeAmount),
                      req[q].userId, ACCURATE_REVIEW)
  /\ Goto(q, "hrs_createEvent", <<>>)
  /\ UNCHANGED <<prompts, votes, reviews, ledger, userBadges, links, techniques, served>>

\* handleReviewSubmission 97
HrsUpdateReputation(q) ==
  /\ At(q, "hrs_updateReputation")
  /\ reputation' = updateUserReputation(reputation, req[q].authorId, req[q].changeAmount)
  /\ Goto(q, "hrs_createEvent", <<>>)
  /\ UNCHANGED <<prompts, votes, reviews, ledger, userBadges, links, techniques, served>>

\* handleReviewSubmission 98-106
HrsCreateEvent(q) ==
  /\ At(q, "hrs_createEvent")
  /\ ledger' = createReputationEvent(ledger,
                 ReputationEvent(req[q].authorId, ReviewEventType(req[q].vote),
                                 req[q].changeAmount, req[q].promptId))
  /\ IF req[q].vote = "approve" THEN Goto(q, "hrs_getPrompts", <<>>)
     ELSE Goto(q, "cab_getUserBadges", <<>>)
  /\ UNCHANGED <<reputation, prompts, votes, reviews, userBadges, links, techniques, served>>

\* faulty variant: the bonus is paid for every approval, not only the first
HrsGetPrompts_AtLeastOne(q) ==
  /\ At(q, "hrs_getPrompts")
  /\ LET approvedPrompts == getPrompts(req[q].authorId, "approved")
     IN IF Cardinality(approvedPrompts) >= 1
        THEN Goto(q, "hrs_bonusReputation",
                  [approvedCount |-> Cardinality(approvedPrompts)])
        ELSE Goto(q, "cab_getUserBadges",
                  [approvedCount |-> Cardinality(approvedPrompts)])
  /\ UNCHANGED <<reputation, prompts, votes, reviews, ledger, userBadges, links, techniques, served>>

\* handleReviewSubmission 107-112: count the author's approved prompts
HrsGetPrompts(q) ==
  /\ At(q, "hrs_getPrompts")
  /\ LET approvedPrompts == getPrompts(req[q].authorId, "approved")
     IN IF Cardinality(approvedPrompts) = 1
        THEN Goto(q, "hrs_bonusReputation",
                  [approvedCount |-> Cardinality(approvedPrompts)])
        ELSE Goto(q, "cab_getUserBadges",
                  [approvedCount |-> Cardinality(approvedPrompts)])
  /\ UNCHANGED <<reputation, prompts, votes, reviews, ledger, userBadges, links, techniques, served>>

\* handleReviewSubmission 114
HrsBonusReputation(q) ==
  /\ At(q, "hrs_bonusReputation")
  /\ reputation' = updateUserReputation(reputation, req[q].authorId, FIRST_PROMPT_APPROVED)
  /\ Goto(q, "hrs_bonusEvent", <<>>)
  /\ UNCHANGED <<prompts, votes, reviews, ledger, userBadges, links, techniques, served>>

\* handleReviewSubmission 115-120
HrsBonusEvent(q) ==
  /\ At(q, "hrs_bonusEvent")
  /\ ledger' = createReputationEvent(ledger,
                 ReputationEvent(req[q].authorId, "first_prompt_approved",
                                 FIRST_PROMPT_APPROVED, req[q].promptId))
  /\ Goto(q, "cab_getUserBadges", <<>>)
  /\ UNCHANGED <<reputation, prompts, votes, reviews, userBadges, links, techniques, served>>

\* ------------------------------------------------- checkAndAwardBadges
\* 140-142: the badges the author holds when the evaluation starts
CabGetUserBadges(q) ==
  /\ At(q, "cab_getUserBadges")
  /\ Goto(q, "cab_cot", [userBadgeIds |-> getUserBadges(req[q].authorId)])
  /\ UNCHANGED <<reputation, prompts, votes, reviews, ledger, userBadges, links, techniques, served>>

\* 145-146 and FIRST_COT 19: skip a badge already held, else read the
\* author's approved prompts
CabCot(q) ==
  /\ At(q, "cab_cot")
  /\ IF "First CoT Prompt" \in req[q].userBadgeIds
     THEN Goto(q, "cab_reviewer", <<>>)
     ELSE Goto(q, "cab_cotTechniques",
               [cotPrompts |-> getPrompts(req[q].authorId, "approved")])
  /\ UNCHANGED <<reputation, prompts, votes, reviews, ledger, userBadges, links, techniques, served>>

\* FIRST_COT 22-29 and line 147
CabCotTechniques(q) ==
  /\ At(q, "cab_cotTechniques")
  /\ IF FIRST_COT(req[q].cotPrompts) THEN Goto(q, "cab_cotAward", <<>>)
     ELSE Goto(q, "cab_reviewer", <<>>)
  /\ UNCHANGED <<reputation, prompts, votes, reviews, ledger, userBadges, links, techniques, served>>

\* 148
CabCotAward(q) ==
  /\ At(q, "cab_cotAward")
  /\ LET awarded == awardBadge(userBadges, req[q].authorId, "First CoT Prompt")
     IN IF awarded.throws THEN Reply(q, 400) /\ UNCHANGED userBadges
        ELSE userBadges' = awarded.table /\ Goto(q, "cab_reviewer", <<>>)
  /\ UNCHANGED <<reputation, prompts, votes, reviews, ledger, links, techniques, served>>

\* 153-155
CabReviewer(q) ==
  /\ At(q, "cab_reviewer")
  /\ IF "Reviewer" \notin req[q].userBadgeIds /\ REPUTATION_500(req[q].authorId)
     THEN Goto(q, "cab_reviewerAward", <<>>)
     ELSE Goto(q, "cab_moderator", <<>>)
  /\ UNCHANGED <<reputation, prompts, votes, reviews, ledger, userBadges, links, techniques, served>>

\* 156
CabReviewerAward(q) ==
  /\ At(q, "cab_reviewerAward")
  /\ LET awarded == awardBadge(userBadges, req[q].authorId, "Reviewer")
     IN IF awarded.throws THEN Reply(q, 400) /\ UNCHANGED userBadges
        ELSE userBadges' = awarded.table /\ Goto(q, "cab_moderator", <<>>)
  /\ UNCHANGED <<reputation, prompts, votes, reviews, ledger, links, techniques, served>>

\* 161-163, then routes.ts 163
CabModerator(q) ==
  /\ At(q, "cab_moderator")
  /\ IF "Moderator" \notin req[q].userBadgeIds /\ REPUTATION_2000(req[q].authorId)
     THEN Goto(q, "cab_moderatorAward", <<>>)
     ELSE Reply(q, 201)
  /\ UNCHANGED <<reputation, prompts, votes, reviews, ledger, userBadges, links, techniques, served>>

\* 164, then routes.ts 163
CabModeratorAward(q) ==
  /\ At(q, "cab_moderatorAward")
  /\ LET awarded == awardBadge(userBadges, req[q].authorId, "Moderator")
     IN IF awarded.throws THEN Reply(q, 400) /\ UNCHANGED userBadges
        ELSE userBadges' = awarded.table /\ Reply(q, 201)
  /\ UNCHANGED <<reputation, prompts, votes, reviews, ledger, links, techniques, served>>

\* the badges one run of checkAndAwardBadges for the user awards when nothing
\* else runs in between
WouldAward(userId) ==
  {b \in {"First CoT Prompt", "Reviewer", "Moderator"} :
     /\ b \notin getUserBadges(userId)
     /\ CASE b = "First CoT Prompt" -> FIRST_COT(getPrompts(userId, "approved"))
          [] b = "Reviewer" -> REPUTATION_500(userId)
          [] OTHER -> REPUTATION_2000(userId)}

\* the server process dies while the request in slot q is between two of its
\* statements: what is committed stays, the rest of the handler never runs.
\* The request is set aside in the other slot, with where it stopped and which
\* badges an evaluation for the author was about to award, and the process
\* that is started next serves from slot q again.
Crash(q) ==
  /\ req[q].pc \notin {"idle", "respond", "crashed"}
  /\ req' = [p \in Procs |->
               IF p = q THEN Idle
               ELSE [req[q] EXCEPT !.pc = "crashed", !.crashedAt = req[q].pc,
                                   !.owed = IF req[q].authorId \in Users
                                            THEN WouldAward(req[q].authorId)
                                            ELSE {}]]
  /\ UNCHANGED <<reputation, prompts, votes, reviews, ledger, userBadges, links, techniques, served>>

\* ---------------------------------------------- POST /api/v1/prompts
\* { ...a, ...b }: the fields of b over those of a
Spread(a, b) ==
  [f \in DOMAIN a \cup DOMAIN b |-> IF f \in DOMAIN b THEN b[f] ELSE a[f]]

\* faulty variant: the body is spread last and wins
insertPromptData_BodyWins(body, userId) ==
  Spread([authorId |-> userId, status |-> "pending_review"], body)

\* routes.ts 61-65: { ...req.body, authorId: userId, status: 'pending_review' }
insertPromptData(body, userId) ==
  Spread(body, [authorId |-> userId, status |-> "pending_review"])

\* routes.ts 59-67: the row is inserted from the data above; version defaults
\* to 1
PromptCreate(q, userId, body) ==
  /\ Dispatch(q)
  /\ NextPromptId # NullId
  /\ prompts' = [prompts EXCEPT ![NextPromptId] =
                   Spread(insertPromptData(body, userId), [version |-> 1])]
  /\ Goto(q, "respond",
          [route |-> "createPrompt", userId |-> userId, body |-> body,
           promptId |-> NextPromptId, status |-> 201])
  /\ UNCHANGED <<reputation, votes, reviews, ledger, userBadges, links, techniques>>

\* ------------------------------------------ POST /api/v1/prompts/:id/fork
\* routes.ts 110-111, forkPrompt 211-214: read the original
ForkRequest(q, userId, promptId) ==
  /\ Dispatch(q)
  /\ IF getPrompt(promptId) = NoPrompt
     THEN Goto(q, "respond",
               [route |-> "fork", userId |-> userId, promptId |-> promptId,
                status |-> 400])
     ELSE Goto(q, "forkInsert",
               [route |-> "fork", userId |-> userId, promptId |-> promptId])
  /\ UNCHANGED <<reputation, prompts, votes, reviews, ledger, userBadges, links, techniques>>

\* forkPrompt 216-229: insert the copy as a draft
ForkInsert(q) ==
  /\ At(q, "forkInsert")
  /\ NextPromptId # NullId
  /\ prompts' = [prompts EXCEPT ![NextPromptId] =
                   [authorId |-> req[q].userId, status |-> "draft",
                    parentPromptId |-> req[q].promptId, version |-> 1]]
  /\ Reply(q, 201)
  /\ UNCHANGED <<reputation, votes, reviews, ledger, userBadges, links, techniques, served>>

\* ----------------------------------------------- PUT /api/v1/prompts/:id
\* routes.ts 89-98: only the author may edit
EditRequest(q, userId, promptId, body) ==
  /\ Dispatch(q)
  /\ LET prompt == getPrompt(promptId)
         code == IF prompt = NoPrompt THEN 404
                 ELSE IF prompt.authorId # userId THEN 403 ELSE 0
     IN Goto(q, IF code = 0 THEN "editUpdate" ELSE "respond",
             [route |-> "edit", userId |-> userId, promptId |-> promptId,
              body |-> body, status |-> code])
  /\ UNCHANGED <<reputation, prompts, votes, reviews, ledger, userBadges, links, techniques>>

\* routes.ts 100-101: the request body is written to the row as it came
EditUpdate(q) ==
  /\ At(q, "editUpdate")
  /\ prompts' = updatePrompt(prompts, req[q].promptId, req[q].body)
  /\ Reply(q, 200)
  /\ UNCHANGED <<reputation, votes, reviews, ledger, userBadges, links, techniques, served>>

\* ------------------------------------ POST /api/v1/prompts/:id/techniques
\* routes.ts 355-362: only the author may link
LinkRequest(q, userId, promptId, techniqueId) ==
  /\ Dispatch(q)
  /\ LET prompt == getPrompt(promptId)
         code == IF prompt = NoPrompt THEN 404
                 ELSE IF prompt.authorId # userId THEN 403 ELSE 0
     IN Goto(q, IF code = 0 THEN "linkInsert" ELSE "respond",
             [route |-> "link", userId |-> userId, promptId |-> promptId,
              techniqueId |-> techniqueId, status |-> code])
  /\ UNCHANGED <<reputation, prompts, votes, reviews, ledger, userBadges, links, techniques>>

\* routes.ts 364-365; a technique id with no row violates the foreign key: 500
LinkInsert(q) ==
  /\ At(q, "linkInsert")
  /\ IF req[q].techniqueId \notin techniques
     THEN Reply(q, 500) /\ UNCHANGED links
     ELSE /\ links' = linkPromptToTechnique(links, req[q].promptId, req[q].techniqueId)
          /\ Reply(q, 201)
  /\ UNCHANGED <<reputation, prompts, votes, reviews, ledger, userBadges, techniques, served>>

\* -------------------------------------------- POST /api/v1/techniques
\* routes.ts 317-322: the moderator gate
TechniqueRequest(q, userId, techniqueId) ==
  /\ Dispatch(q)
  /\ IF getUser(userId) < TECHNIQUE_THRESHOLD
     THEN Goto(q, "respond",
               [route |-> "technique", userId |-> userId, status |-> 403])
     ELSE Goto(q, "techniqueInsert",
               [route |-> "technique", userId |-> userId,
                techniqueId |-> techniqueId])
  /\ UNCHANGED <<reputation, prompts, votes, reviews, ledger, userBadges, links, techniques>>

\* routes.ts 324-326; the name is unique: a second insert of it throws, 400
TechniqueInsert(q) ==
  /\ At(q, "techniqueInsert")
  /\ IF req[q].techniqueId \in techniques
     THEN Reply(q, 400) /\ UNCHANGED techniques
     ELSE /\ techniques' = techniques \cup {req[q].techniqueId}
          /\ Reply(q, 201)
  /\ UNCHANGED <<reputation, prompts, votes, reviews, ledger, userBadges, links, served>>

\* the response is sent and the slot is free again
Respond(q) ==
  /\ At(q, "respond")
  /\ req' = [req EXCEPT ![q] = Idle]
  /\ UNCHANGED <<reputation, prompts, votes, reviews, ledger, userBadges, links, techniques, served>>

\* ------------------------------------------------------------- behaviours
\* upvotes that users outside Users cast on prompt 3 before the modelled
\* window: how its author came by the reputation that opens the review and
\* technique gates (10 each, one ledger row each)
SeedUpvotes == {50, 200}

InitDb(seed) ==
  /\ reputation = [u \in Users |-> IF u = "u3" THEN seed * PROMPT_UPVOTED ELSE 0]
  /\ prompts = [id \in PromptIds |->
                  IF id \in {1, 2}
                  THEN [authorId |-> "u1", status |-> "pending_review",
                        parentPromptId |-> NullId, version |-> 1]
                  ELSE IF id = 3
                  THEN [authorId |-> "u3", status |-> "pending_review",
                        parentPromptId |-> NullId, version |-> 1]
                  ELSE NoPrompt]
  /\ votes = EmptyBag
  /\ reviews = EmptyBag
  /\ ledger = [e \in {ReputationEvent("u3", "prompt_upvoted", PROMPT_UPVOTED, 3)}
                 |-> seed]
  /\ userBadges = [u \in Users |-> [b \in BadgeNames |-> 0]]
  /\ links = [id \in PromptIds |-> IF id = 1 THEN {1} ELSE IF id = 2 THEN {3} ELSE {}]
  /\ techniques = {1, 2, 3}
  /\ served = 0

Init ==
  /\ \E seed \in SeedUpvotes : InitDb(seed)
  /\ req = [q \in Procs |-> Idle]

\* the race starts with u3 above both badge thresholds
InitConcurrent ==
  /\ InitDb(200)
  /\ req = [q \in Procs |-> Idle]

\* what a request body may carry
EditBodies == [status : Statuses]
CreateBodies ==
  [status : {"draft", "approved"}, authorId : {"u1", "u3"}, parentPromptId : {NullId}]

\* the requests the clients send when they are served one at a time
Voters == {"u1", "u2"}
VotePrompts == {1, 3, 4}
Reviewers == {"u2", "u3"}
Forkers == {"u2"}
ForkPrompts == {1, 4}
Editors == {"u1", "u2"}
EditPrompts == {1, 4}
LinkPrompts == {1, 2}
Moderators == {"u2", "u3"}
NewTechniques == {3, 4}

Step(q) ==
  \/ \E u \in Voters, p \in VotePrompts, v \in VoteTypes : VoteRequest(q, u, p, v)
  \/ VoteCreate(q)
  \/ HpvGetPrompt(q)
  \/ HpvUpdateReputation(q)
  \/ HpvCreateEvent(q)
  \/ \E u \in Voters, p \in VotePrompts : VoteDelete(q, u, p)
  \/ \E u \in Reviewers, p \in PromptIds, v \in ReviewVotes : ReviewRequest(q, u, p, v)
  \/ ReviewCreate(q)
  \/ ReviewUpdatePrompt(q)
  \/ HrsGetPrompt(q)
  \/ HrsUpdateReputation(q)
  \/ HrsCreateEvent(q)
  \/ HrsGetPrompts(q)
  \/ HrsBonusReputation(q)
  \/ HrsBonusEvent(q)
  \/ CabGetUserBadges(q)
  \/ CabCot(q)
  \/ CabCotTechniques(q)
  \/ CabCotAward(q)
  \/ CabReviewer(q)
  \/ CabReviewerAward(q)
  \/ CabModerator(q)
  \/ CabModeratorAward(q)
  \/ \E u \in Forkers, b \in CreateBodies : PromptCreate(q, u, b)
  \/ \E u \in Forkers, p \in ForkPrompts : ForkRequest(q, u, p)
  \/ ForkInsert(q)
  \/ \E u \in Editors, p \in EditPrompts, b \in EditBodies : EditRequest(q, u, p, b)
  \/ EditUpdate(q)
  \/ \E u \in Editors, p \in LinkPrompts, t \in TechniqueIds : LinkRequest(q, u, p, t)
  \/ LinkInsert(q)
  \/ \E u \in Moderators, t \in NewTechniques : TechniqueRequest(q, u, t)
  \/ TechniqueInsert(q)
  \/ Respond(q)

\* the requests that race when two are in flight at once: each slot takes
\* one vote or review request and runs it to its response
RaceVoters == {"u1", "u2"}
RaceVotePrompts == {1}
RaceReviewers == {"u3"}
RaceReviewPrompts == {1, 2, 3}

Race(q) ==
  \/ \E u \in RaceVoters, p \in RaceVotePrompts, v \in VoteTypes : VoteRequest(q, u, p, v)
  \/ VoteCreate(q)
  \/ HpvGetPrompt(q)
  \/ HpvUpdateReputation(q)
  \/ HpvCreateEvent(q)
  \/ \E u \in RaceReviewers, p \in RaceReviewPrompts, v \in ReviewVotes :
        ReviewRequest(q, u, p, v)
  \/ ReviewCreate(q)
  \/ ReviewUpdatePrompt(q)
  \/ HrsGetPrompt(q)
  \/ HrsUpdateReputation(q)
  \/ HrsCreateEvent(q)
  \/ HrsGetPrompts(q)
  \/ HrsBonusReputation(q)
  \/ HrsBonusEvent(q)
  \/ CabGetUserBadges(q)
  \/ CabCot(q)
  \/ CabCotTechniques(q)
  \/ CabCotAward(q)
  \/ CabReviewer(q)
  \/ CabReviewerAward(q)
  \/ CabModerator(q)
  \/ CabModeratorAward(q)

\* the arguments the two exported handlers are called with
HandlerPrompts == {1, 3, 4}
PreviousVotes == VoteTypes \cup {NoVote}

\* the handlers called directly, one call at a time, between edits by which
\* an author sets the status of a prompt
StepHandlers(q) ==
  \/ \E p \in HandlerPrompts, v \in VoteTypes, pv \in PreviousVotes :
        HandlePromptVote(q, p, v, pv)
  \/ HpvGetPrompt(q)
  \/ HpvUpdateReputation(q)
  \/ HpvCreateEvent(q)
  \/ \E p \in HandlerPrompts, u \in Reviewers, v \in ReviewVotes :
        HandleReviewSubmission(q, p, u, v)
  \/ HrsGetPrompt(q)
  \/ HrsUpdateReputation(q)
  \/ HrsCreateEvent(q)
  \/ HrsGetPrompts(q)
  \/ HrsBonusReputation(q)
  \/ HrsBonusEvent(q)
  \/ CabGetUserBadges(q)
  \/ CabCot(q)
  \/ CabCotTechniques(q)
  \/ CabCotAward(q)
  \/ CabReviewer(q)
  \/ CabReviewerAward(q)
  \/ CabModerator(q)
  \/ CabModeratorAward(q)
  \/ \E u \in Editors, p \in EditPrompts, b \in EditBodies : EditRequest(q, u, p, b)
  \/ EditUpdate(q)
  \/ Respond(q)

\* one request at a time: the next is dispatched when the last has answered
Next == Step(1)

\* requests overlap: either slot takes the next request while the other one
\* is between two of its statements
NextConcurrent == \E q \in Procs : Race(q)

NextHandlers == StepHandlers(1)

\* one request at a time, in a server that may die and be started again
NextCrash == Step(1) \/ Crash(1)

Spec == Init /\ [][Next]_vars

SpecConcurrent == InitConcurrent /\ [][NextConcurrent]_vars

SpecHandlers == Init /\ [][NextHandlers]_vars

SpecCrash == Init /\ [][NextCrash]_vars

\* ---------------------------------------------------------------- claims
RECURSIVE SumAmounts(_, _)
\* the sum of changeAmount over the rows of bag l that are in set S
SumAmounts(l, S) ==
  IF S = {} THEN 0
  ELSE LET e == CHOOSE x \in S : TRUE
       IN CopiesIn(e, l) * e.changeAmount + SumAmounts(l, S \ {e})

LedgerSum(l, userId) == SumAmounts(l, {e \in BagToSet(l) : e.userId = userId})

\* no handler is between two of its statements
Quiescent == \A q \in Procs : req[q].pc \in {"idle", "respond"}

\* slot q has run a request of that route to its response
Answered(q, route) == req[q].pc = "respond" /\ req[q].route = route

\* C1: whenever no handler is mid-execution, every user's cached reputation
\* equals the sum of changeAmount over the ledger rows of that user.
C1_ReputationIsLedgerSum ==
  Quiescent => \A u \in Users : reputation[u] = LedgerSum(ledger, u)

\* a review that paid the first-approval bonus has answered, after a vote on a
\* prompt of the same author was accounted for
C1_Witness ==
  /\ Answered(1, "review") /\ req[1].status = 201 /\ req[1].approvedCount = 1
  /\ \E e \in BagToSet(ledger) :
        /\ e.userId = req[1].authorId
        /\ e.eventType \in {"prompt_upvoted", "prompt_downvoted"}
        /\ e.userId # "u3"

\* C2: a vote request of the type the voter already holds on that prompt
\* answers with every reputation and the ledger as the request found them.
C2_SameVoteIsNoOp ==
  \A q \in Procs :
    (Answered(q, "vote") /\ req[q].existingVote = req[q].vote)
      => /\ reputation = req[q].before.reputation
         /\ ledger = req[q].before.ledger

C2_Witness ==
  /\ Answered(1, "vote") /\ req[1].status = 201
  /\ req[1].existingVote = req[1].vote
  /\ getUserVoteForPrompt(req[1].userId, req[1].promptId) = req[1].vote

\* C3: a vote request that changes the voter's existing vote on the prompt
\* moves the author's reputation by -12 (upvote to downvote) or +12 (downvote
\* to upvote), nobody else's, and adds exactly one ledger row, which carries
\* that amount for the author and the prompt.
C3_VoteChangeNetsDifference ==
  \A q \in Procs :
    (/\ Answered(q, "vote") /\ req[q].status = 201
     /\ req[q].existingVote \in VoteTypes \ {req[q].vote})
      => LET author == prompts[req[q].promptId].authorId
             net == IF req[q].vote = "downvote" THEN -12 ELSE 12
         IN /\ reputation = [req[q].before.reputation EXCEPT ![author] = @ + net]
            /\ \E e \in BagToSet(ledger) :
                  /\ ledger = req[q].before.ledger (+) SetToBag({e})
                  /\ e.userId = author
                  /\ e.changeAmount = net
                  /\ e.relatedPromptId = req[q].promptId

C3_Witness ==
  /\ Answered(1, "vote") /\ req[1].status = 201
  /\ req[1].existingVote = "upvote" /\ req[1].vote = "downvote"
  /\ getUserVoteForPrompt(req[1].userId, req[1].promptId) = "downvote"

\* rows of type first_prompt_approved that bag l holds for the user
FirstApprovedEvents(l, userId) ==
  LET rows == {e \in BagToSet(l) :
                 e.userId = userId /\ e.eventType = "first_prompt_approved"}
  IN SumAmounts(l, rows) \div FIRST_PROMPT_APPROVED

\* bag l holds a row for the user with that amount that bag old does not
NewEvent(l, old, userId, changeAmount) ==
  \E e \in BagToSet(l) :
     /\ e.userId = userId
     /\ e.changeAmount = changeAmount
     /\ CopiesIn(e, l) > CopiesIn(e, old)

\* C4: two approving reviews of two different prompts of one author, each
\* dispatched while the author had no approved prompt and no first-approval
\* row, leave exactly one first_prompt_approved row for the author once both
\* have answered.
C4_ExactlyOneFirstApproval ==
  \A q1, q2 \in Procs :
    (/\ q1 # q2
     /\ Answered(q1, "review") /\ Answered(q2, "review")
     /\ req[q1].status = 201 /\ req[q2].status = 201
     /\ req[q1].vote = "approve" /\ req[q2].vote = "approve"
     /\ req[q1].promptId # req[q2].promptId
     /\ req[q1].authorId = req[q2].authorId
     /\ \A q \in {q1, q2} :
           /\ \A id \in PromptIds :
                 req[q].before.prompts[id] # NoPrompt
                   => ~ (/\ req[q].before.prompts[id].authorId = req[q].authorId
                         /\ req[q].before.prompts[id].status = "approved")
           /\ FirstApprovedEvents(req[q].before.ledger, req[q].authorId) = 0)
      => FirstApprovedEvents(ledger, req[q1].authorId) = 1

\* C5: the ledger never holds more than one first_prompt_approved row for a
\* user.
C5_AtMostOneFirstApproval ==
  \A u \in Users : FirstApprovedEvents(ledger, u) <= 1

\* C6: user_badges never holds two rows for one (userId, badgeId), and a
\* review of an existing prompt by a reviewer above the gate answers 201: an
\* award that meets a row already there throws nothing.
C6_OneRowPerBadge ==
  /\ \A u \in Users, b \in BadgeNames : userBadges[u][b] <= 1
  /\ \A q \in Procs :
       (/\ Answered(q, "review")
        /\ req[q].before.reputation[req[q].userId] >= REVIEW_THRESHOLD
        /\ req[q].before.prompts[req[q].promptId] # NoPrompt)
         => req[q].status = 201

\* two overlapping approving reviews for one author who stays above 500: both
\* started the evaluation without the Reviewer badge, so both ran the award,
\* and one row is there
C6_Witness ==
  /\ \A q \in Procs :
        /\ Answered(q, "review") /\ req[q].status = 201
        /\ req[q].vote = "approve"
        /\ req[q].authorId = "u3"
        /\ "Reviewer" \notin req[q].userBadgeIds
        /\ req[q].before.reputation["u3"] >= BADGE_REPUTATION_500
  /\ userBadges["u3"]["Reviewer"] = 1

VoteThreshold(voteType) ==
  IF voteType = "upvote" THEN UPVOTE_THRESHOLD ELSE DOWNVOTE_THRESHOLD

\* C7: a vote request from a voter whose reputation is below the threshold of
\* the vote type (15 upvote, 125 downvote) is not accepted, and it answers
\* with the votes table, every reputation and the ledger as it found them.
C7_VoteGate ==
  \A q \in Procs :
    (/\ Answered(q, "vote")
     /\ req[q].before.reputation[req[q].userId] < VoteThreshold(req[q].vote))
      => /\ req[q].status # 201
         /\ votes = req[q].before.votes
         /\ reputation = req[q].before.reputation
         /\ ledger = req[q].before.ledger

\* C8: an approving review of a prompt with a parent leaves a new +5 row for
\* the parent's author, whose reputation (when that author is not the fork's)
\* has gone up by 5.
C8_ForkBonus ==
  \A q \in Procs :
    (/\ Answered(q, "review") /\ req[q].status = 201
     /\ req[q].vote = "approve"
     /\ prompts[req[q].promptId].parentPromptId # NullId)
      => LET original == prompts[prompts[req[q].promptId].parentPromptId].authorId
         IN /\ NewEvent(ledger, req[q].before.ledger, original, FORK_APPROVED)
            /\ original # req[q].authorId
                 => reputation[original]
                      = req[q].before.reputation[original] + FORK_APPROVED

\* C9: a vote request that casts a downvote the voter did not hold leaves a
\* new -1 row for the voter, whose reputation (when the voter is not the
\* author) has gone down by 1.
C9_DownvoteCost ==
  \A q \in Procs :
    (/\ Answered(q, "vote") /\ req[q].status = 201
     /\ req[q].vote = "downvote" /\ req[q].existingVote # "downvote")
      => /\ NewEvent(ledger, req[q].before.ledger, req[q].userId, DOWNVOTE_CAST)
         /\ req[q].userId # req[q].authorId
              => reputation[req[q].userId]
                   = req[q].before.reputation[req[q].userId] + DOWNVOTE_CAST

\* C10: a vote deletion that removes a downvote the voter held leaves a new +1
\* row for the voter, whose reputation has gone up by 1.
C10_DownvoteRefund ==
  \A q \in Procs :
    (/\ Answered(q, "deleteVote")
     /\ \E r \in VoteRows(req[q].before.votes, req[q].userId, req[q].promptId) :
           r.voteType = "downvote")
      => /\ NewEvent(ledger, req[q].before.ledger, req[q].userId, DOWNVOTE_REMOVED)
         /\ reputation[req[q].userId]
              = req[q].before.reputation[req[q].userId] + DOWNVOTE_REMOVED

\* the rows of bag l that bag old does not hold, with the types in set T
NewRowsOfType(l, old, T) ==
  LET added == l (-) old
  IN [e \in {x \in BagToSet(added) : x.eventType \in T} |-> added[e]]

\* C11: a review request that is accepted for an existing prompt adds exactly
\* one review row to the ledger, for the prompt's author and that prompt, of
\* +15 (approve) or -5 (reject); the author's reputation moves by that amount
\* (plus the first-approval bonus when that is paid), and nobody else's moves.
C11_ReviewPaysAuthor ==
  \A q \in Procs :
    (/\ Answered(q, "review") /\ req[q].status = 201
     /\ req[q].before.prompts[req[q].promptId] # NoPrompt)
      => LET author == req[q].before.prompts[req[q].promptId].authorId
             amount == IF req[q].vote = "approve" THEN 15 ELSE -5
             reviewRows == NewRowsOfType(ledger, req[q].before.ledger,
                                         {"review_approved", "review_rejectd"})
             bonusRows == NewRowsOfType(ledger, req[q].before.ledger,
                                        {"first_prompt_approved"})
         IN /\ reviewRows = SetToBag({ReputationEvent(author,
                                ReviewEventType(req[q].vote), amount, req[q].promptId)})
            /\ ledger = (req[q].before.ledger (+) reviewRows) (+) bonusRows
            /\ reputation = [req[q].before.reputation EXCEPT
                                ![author] = @ + amount
                                   + BagCardinality(bonusRows) * FIRST_PROMPT_APPROVED]

\* a rejecting review of a prompt of another user has answered
C11_Witness ==
  /\ Answered(1, "review") /\ req[1].status = 201
  /\ req[1].vote = "reject" /\ req[1].authorId = "u1"
  /\ reputation["u1"] = req[1].before.reputation["u1"] - 5

\* C12: handlePromptVote and handleReviewSubmission called with the id of a
\* prompt that has no row return normally, with every reputation, the ledger
\* and the badges as the call found them.  (A prompt row whose author has no
\* user row does not exist: prompts.author_id references users.id and no
\* code path deletes a user.)
C12_MissingPromptIsNoOp ==
  \A q \in Procs :
    (/\ req[q].pc = "respond"
     /\ req[q].route \in {"handlePromptVote", "handleReviewSubmission"}
     /\ req[q].before.prompts[req[q].promptId] = NoPrompt)
      => /\ req[q].status = 201
         /\ reputation = req[q].before.reputation
         /\ ledger = req[q].before.ledger
         /\ userBadges = req[q].before.userBadges

\* handlePromptVote has returned from a call for prompt 4, which has no row,
\* after an earlier call of handleReviewSubmission paid an author
C12_Witness ==
  /\ Answered(1, "handlePromptVote") /\ req[1].promptId = 4
  /\ prompts[4] = NoPrompt /\ req[1].status = 201
  /\ \E e \in BagToSet(ledger) : e.eventType = "review_approved"

\* C13: when a vote or review request that changed a user's reputation has
\* answered, that user holds the Reviewer badge if the reputation is at least
\* 500 and the Moderator badge if it is at least 2000.
C13_BadgesEvaluated ==
  \A q \in Procs :
    (/\ Answered(q, "vote") \/ Answered(q, "review")
     /\ req[q].status = 201
     /\ reputation[req[q].authorId] # req[q].before.reputation[req[q].authorId])
      => /\ reputation[req[q].authorId] >= 500
              => userBadges[req[q].authorId]["Reviewer"] >= 1
         /\ reputation[req[q].authorId] >= 2000
              => userBadges[req[q].authorId]["Moderator"] >= 1

\* C14: a review request from a user whose reputation is below 500 when it
\* arrives answers 403 with the reviews, the prompts, the ledger and every
\* reputation as it found them; a technique request from a user below 2000
\* answers 403 with the technique catalogue as it found it.
C14_ReputationGates ==
  \A q \in Procs :
    /\ (/\ Answered(q, "review")
        /\ req[q].before.reputation[req[q].userId] < 500)
         => /\ req[q].status = 403
            /\ reviews = req[q].before.reviews
            /\ prompts = req[q].before.prompts
            /\ ledger = req[q].before.ledger
            /\ reputation = req[q].before.reputation
    /\ (/\ Answered(q, "technique")
        /\ req[q].before.reputation[req[q].userId] < 2000)
         => /\ req[q].status = 403
            /\ techniques = req[q].before.techniques

\* the author of prompt 3 was voted below 500 and then asked to review
C14_Witness ==
  /\ Answered(1, "review") /\ req[1].status = 403
  /\ req[1].userId = "u3"
  /\ reputation["u3"] = 498

\* C15: the votes table never holds two rows for one (user, prompt), and the
\* insert of a vote request leaves exactly one row under its key, carrying the
\* submitted type, with every other row as it was.
C15_OneVotePerUserAndPrompt ==
  /\ [](\A u \in Users, p \in PromptIds :
          BagCardinality([r \in VoteRows(votes, u, p) |-> votes[r]]) <= 1)
  /\ [][\A q \in Procs :
          (At(q, "createVote") /\ req'[q].pc = "hpv_getPrompt")
            => LET row == [userId |-> req[q].userId, promptId |-> req[q].promptId,
                           voteType |-> req[q].vote]
                   key == VoteRows(votes, req[q].userId, req[q].promptId)
               IN /\ VoteRows(votes', req[q].userId, req[q].promptId) = {row}
                  /\ votes'[row] = 1
                  /\ WithoutRows(votes', {row}) = WithoutRows(votes, key)]_vars

\* both requests came from one user for one prompt with different types, the
\* second found the first one's row, and one row is there
C15_Witness ==
  /\ \A q \in Procs : Answered(q, "vote") /\ req[q].status = 201
  /\ req[1].userId = req[2].userId /\ req[1].promptId = req[2].promptId
  /\ req[1].vote = "upvote" /\ req[1].existingVote = NoVote
  /\ req[2].vote = "downvote" /\ req[2].existingVote = "upvote"
  /\ votes = SetToBag({[userId |-> req[2].userId, promptId |-> req[2].promptId,
                        voteType |-> "downvote"]})

\* C16: after a crash, once nothing is running, every user's reputation equals
\* the sum of the user's ledger rows: no reputation write is persisted without
\* its ledger row.
C16_AtomicUnderCrash ==
  (/\ \E q \in Procs : At(q, "crashed")
   /\ \A q \in Procs : req[q].pc \in {"idle", "respond", "crashed"})
    => \A u \in Users : reputation[u] = LedgerSum(ledger, u)

\* C19: when an approving review died after its reputation writes and before
\* its badge evaluation, and a later approving review for the same author has
\* run its evaluation and answered (the prompt of the first still approved),
\* the author holds every badge the evaluation that never ran was about to
\* award.
C19_EvaluationRecovered ==
  \A q1, q2 \in Procs :
    (/\ At(q1, "crashed") /\ req[q1].crashedAt = "cab_getUserBadges"
     /\ req[q1].vote = "approve"
     /\ prompts[req[q1].promptId].status = "approved"
     /\ Answered(q2, "review") /\ req[q2].status = 201
     /\ req[q2].vote = "approve"
     /\ req[q2].authorId = req[q1].authorId)
      => req[q1].owed \subseteq getUserBadges(req[q1].authorId)

\* what the request in slot q added to the reputation of the user
Delta(q, userId) ==
  IF req[q].authorId = userId /\ req[q].status = 201
  THEN req[q].changeAmount
         + (IF /\ req[q].route = "review" /\ req[q].vote = "approve"
               /\ req[q].approvedCount = 1
            THEN FIRST_PROMPT_APPROVED ELSE 0)
  ELSE 0

\* the user's reputation before either request was dispatched: the ledger sum
\* in the earlier of the two snapshots
StartReputation(userId) ==
  LET first == CHOOSE q \in Procs :
                 \A p \in Procs : BagCardinality(req[q].before.ledger)
                                     <= BagCardinality(req[p].before.ledger)
  IN LedgerSum(req[first].before.ledger, userId)

\* C17: when two requests that overlap in any way have both answered, every
\* user's reputation is what it was before them plus the amount each of the
\* two applied to that user.
C17_NoLostIncrement ==
  (\A q \in Procs : At(q, "respond"))
    => \A u \in Users :
         reputation[u] = StartReputation(u) + Delta(1, u) + Delta(2, u)

\* two voters voted on the prompt of one author, both were dispatched before
\* either wrote, and both deltas are in the author's reputation
C17_Witness ==
  /\ \A q \in Procs : Answered(q, "vote") /\ req[q].status = 201
  /\ req[1].userId # req[2].userId
  /\ req[1].authorId = "u1" /\ req[2].authorId = "u1"
  /\ req[1].vote = "upvote" /\ req[2].vote = "downvote"
  /\ req[1].before.reputation = req[2].before.reputation
  /\ req[1].before.ledger = req[2].before.ledger
  /\ reputation["u1"] = 8

\* C18: when two vote requests of one user for one prompt, on which the user
\* held no vote, have both answered, both answered 201 and the author's
\* reputation has moved by the amount of the one vote that is stored: +10 for
\* an upvote, -2 for a downvote.
C18_ConcurrentSameVote ==
  (/\ \A q \in Procs : Answered(q, "vote")
   /\ req[1].userId = req[2].userId /\ req[1].promptId = req[2].promptId
   /\ prompts[req[1].promptId] # NoPrompt)
    => LET author == prompts[req[1].promptId].authorId
           stored == getUserVoteForPrompt(req[1].userId, req[1].promptId)
       IN /\ \A q \in Procs : req[q].status = 201
          /\ reputation[author]
               = StartReputation(author)
                   + (IF stored = "upvote" THEN 10 ELSE -2)

\* the techniques whose name contains "chain-of-thought" in any letter case:
\* "Chain-of-Thought" and "Zero-shot chain-of-thought", and neither "Few-Shot"
\* nor "Chain of Thought"
ChainOfThoughtTechniques == {1, 3}

\* the user's approved prompts that are linked to such a technique
ApprovedCotPrompts(userId) ==
  {id \in PromptIds :
     /\ prompts[id] # NoPrompt
     /\ prompts[id].authorId = userId
     /\ prompts[id].status = "approved"
     /\ \E t \in ChainOfThoughtTechniques : t \in links[id] /\ t \in techniques}

\* C20: when a review request has run the badge evaluation for an author who
\* did not hold the First CoT Prompt badge, the author holds it afterwards
\* exactly if the author has exactly one approved prompt linked to a
\* chain-of-thought technique.
C20_FirstCotExactlyOne ==
  \A q \in Procs :
    (/\ Answered(q, "review") /\ req[q].status = 201
     /\ req[q].before.userBadges[req[q].authorId]["First CoT Prompt"] = 0)
      => (userBadges[req[q].authorId]["First CoT Prompt"] = 1
            <=> Cardinality(ApprovedCotPrompts(req[q].authorId)) = 1)

\* the author's one approved prompt is linked to "Zero-shot chain-of-thought"
\* and the badge was awarded
C20_Witness ==
  /\ Answered(1, "review") /\ req[1].status = 201
  /\ req[1].promptId = 2 /\ ApprovedCotPrompts("u1") = {2}
  /\ req[1].before.userBadges["u1"]["First CoT Prompt"] = 0
  /\ userBadges["u1"]["First CoT Prompt"] = 1

\* the author has two approved chain-of-thought prompts and no badge
C20_WitnessTwo ==
  /\ Answered(1, "review") /\ req[1].status = 201
  /\ ApprovedCotPrompts("u1") = {1, 2}
  /\ userBadges["u1"]["First CoT Prompt"] = 0

\* the ids of the prompt rows that are there now and were not when the
\* request in slot q was dispatched
CreatedPrompts(q) ==
  {id \in PromptIds : req[q].before.prompts[id] = NoPrompt /\ prompts[id] # NoPrompt}

\* C21: a fork request for an existing prompt that answers 201 has added one
\* prompt row, authored by the caller, with status draft, version 1, the
\* original as parent and the original's technique links, and left every
\* other prompt row and its links as they were; a fork request for an id
\* without a row does not answer 201 and adds nothing.
C21_ForkCopiesPrompt ==
  \A q \in Procs :
    Answered(q, "fork")
      => IF req[q].before.prompts[req[q].promptId] = NoPrompt
         THEN req[q].status # 201 /\ prompts = req[q].before.prompts
         ELSE req[q].status = 201
                => \E id \in PromptIds :
                     /\ CreatedPrompts(q) = {id}
                     /\ prompts[id] = [authorId |-> req[q].userId, status |-> "draft",
                                       parentPromptId |-> req[q].promptId, version |-> 1]
                     /\ links[id] = links[req[q].promptId]
                     /\ \A other \in PromptIds \ {id} :
                           /\ prompts[other] = req[q].before.prompts[other]
                           /\ links[other] = req[q].before.links[other]

\* C22: no step removes or alters a ledger row: every row is there, with the
\* same userId, eventType, changeAmount and relatedPromptId and at least as
\* many times, after the step.
C22_LedgerAppendOnly ==
  [][\A e \in BagToSet(ledger) : CopiesIn(e, ledger') >= CopiesIn(e, ledger)]_vars

\* two requests have each added a row for the same user
C22_Witness ==
  /\ \E e1, e2 \in BagToSet(ledger) :
        /\ e1 # e2 /\ e1.userId = "u1" /\ e2.userId = "u1"
        /\ e1.eventType = "prompt_upvoted" /\ e2.eventType = "review_rejectd"
  /\ At(1, "respond")

\* C23: a review request reads the count of the author's approved prompts
\* only with the reviewed prompt already set to approved, and when it has
\* answered it has added one first_prompt_approved row of +50 for the author
\* if it approved and the author then has exactly one approved prompt, and no
\* such row otherwise (so never when it rejected).
C23_FirstApprovalBonus ==
  \A q \in Procs :
    /\ At(q, "hrs_getPrompts")
         => /\ req[q].vote = "approve"
            /\ prompts[req[q].promptId].status = "approved"
    /\ (Answered(q, "review") /\ req[q].status = 201)
         => NewRowsOfType(ledger, req[q].before.ledger, {"first_prompt_approved"})
              = IF /\ req[q].vote = "approve"
                   /\ Cardinality({id \in PromptIds :
                                     /\ prompts[id] # NoPrompt
                                     /\ prompts[id].authorId = req[q].authorId
                                     /\ prompts[id].status = "approved"}) = 1
                THEN SetToBag({ReputationEvent(req[q].authorId, "first_prompt_approved",
                                               50, req[q].promptId)})
                ELSE EmptyBag

\* the second of an author's prompts was approved, and no bonus was paid for it
C23_Witness ==
  /\ Answered(1, "review") /\ req[1].status = 201 /\ req[1].vote = "approve"
  /\ req[1].approvedCount = 2
  /\ FirstApprovedEvents(ledger, req[1].authorId) = 1
  /\ ledger = req[1].before.ledger
                 (+) SetToBag({ReputationEvent(req[1].authorId, "review_approved",
                                               15, req[1].promptId)})

\* C24: when a review request has answered 201, the reviewed prompt's status
\* is approved for an approve vote and rejected for a reject vote, the rest
\* of its row and every other prompt are as the request found them, and the
\* reviews table has gained exactly one row, for that prompt, reviewer and
\* vote.
C24_ReviewSetsStatus ==
  \A q \in Procs :
    (Answered(q, "review") /\ req[q].status = 201)
      => /\ prompts = [req[q].before.prompts EXCEPT ![req[q].promptId].status =
                         IF req[q].vote = "approve" THEN "approved" ELSE "rejected"]
         /\ reviews = req[q].before.reviews
                        (+) SetToBag({[promptId |-> req[q].promptId,
                                       reviewerId |-> req[q].userId,
                                       vote |-> req[q].vote]})

\* a prompt that was approved has been rejected by a second review
C24_Witness ==
  /\ Answered(1, "review") /\ req[1].status = 201 /\ req[1].vote = "reject"
  /\ req[1].before.prompts[req[1].promptId].status = "approved"
  /\ prompts[req[1].promptId].status = "rejected"
  /\ BagCardinality(reviews) = 2

\* the event types the documentation lists for the engine
EventCatalogue ==
  {"prompt_upvoted", "prompt_downvoted", "review_approved", "review_rejected",
   "first_prompt_approved", "accurate_review"}

\* C25: every ledger row carries an event type of the catalogue:
\* prompt_upvoted or prompt_downvoted for a vote, review_approved or
\* review_rejected for a review, first_prompt_approved for the bonus,
\* accurate_review for the reviewer bonus.
C25_EventTypesOfCatalogue ==
  \A e \in BagToSet(ledger) : e.eventType \in EventCatalogue

\* the one type outside the catalogue is the one a rejecting review writes
C25_OnlyRejectDiffers ==
  \A e \in BagToSet(ledger) : e.eventType \in EventCatalogue \cup {"review_rejectd"}

\* C26: a prompt created through POST /api/v1/prompts is stored with status
\* pending_review and the caller as author, whatever status and authorId the
\* body carries.
C26_CreateForcesStatusAndAuthor ==
  \A q \in Procs :
    Answered(q, "createPrompt")
      => /\ CreatedPrompts(q) = {req[q].promptId}
         /\ prompts[req[q].promptId].status = "pending_review"
         /\ prompts[req[q].promptId].authorId = req[q].userId

\* the body asked for status approved and another user as author
C26_Witness ==
  /\ Answered(1, "createPrompt") /\ req[1].status = 201
  /\ req[1].body.status = "approved"
  /\ req[1].body.authorId # req[1].userId
  /\ prompts[req[1].promptId].status = "pending_review"

\* the sum of the user's ledger rows that come from votes
VoteLedgerSum(userId) ==
  SumAmounts(ledger, {e \in BagToSet(ledger) :
                        /\ e.userId = userId
                        /\ e.eventType \in {"prompt_upvoted", "prompt_downvoted"}})

\* the votes of that type stored on the prompts of the user
StoredVotes(userId, voteType) ==
  BagCardinality([r \in {x \in BagToSet(votes) :
                           /\ x.voteType = voteType
                           /\ prompts[x.promptId] # NoPrompt
                           /\ prompts[x.promptId].authorId = userId} |-> votes[r]])

\* the users all of whose votes received lie in the modelled window (the
\* upvotes u3 starts with were cast by users who are not modelled)
AuthorsWithoutHistory == {"u1", "u2"}

\* C27: whenever no handler is mid-execution, the vote rows of an author's
\* ledger sum to 10 times the upvotes stored on the author's prompts minus 2
\* times the downvotes stored on them.
C27_VoteLedgerMatchesVotes ==
  Quiescent
    => \A a \in AuthorsWithoutHistory :
         VoteLedgerSum(a) = 10 * StoredVotes(a, "upvote") - 2 * StoredVotes(a, "downvote")

\* C28: a step sets a prompt's status to approved only as the status update
\* of an approving review of that prompt whose reviewer had a reputation of at
\* least 500 when the review arrived; in particular no create, edit or fork
\* step does.
C28_ApprovedOnlyByReview ==
  [][\A id \in PromptIds :
       (/\ prompts'[id] # NoPrompt
        /\ prompts'[id].status = "approved"
        /\ prompts[id] = NoPrompt \/ prompts[id].status # "approved")
         => \E q \in Procs :
              /\ At(q, "updatePrompt")
              /\ req[q].route = "review" /\ req[q].vote = "approve"
              /\ req[q].promptId = id
              /\ req[q].before.reputation[req[q].userId] >= 500]_vars

\* the rows of bag l that belong to the user
RowsOf(l, userId) == [e \in {x \in BagToSet(l) : x.userId = userId} |-> l[e]]

\* C29: when a review request has answered 201, every user other than the
\* prompt's author has the reputation, the ledger rows and the badges the
\* request found: in particular the reviewer, when the reviewer is not the
\* author.
C29_ReviewerUntouched ==
  \A q \in Procs :
    (Answered(q, "review") /\ req[q].status = 201)
      => \A u \in Users \ {req[q].authorId} :
           /\ reputation[u] = req[q].before.reputation[u]
           /\ RowsOf(ledger, u) = RowsOf(req[q].before.ledger, u)
           /\ userBadges[u] = req[q].before.userBadges[u]

\* u3 approved a prompt of u1, who was paid, and kept reputation and badges
C29_Witness ==
  /\ Answered(1, "review") /\ req[1].status = 201 /\ req[1].vote = "approve"
  /\ req[1].userId = "u3" /\ req[1].authorId = "u1"
  /\ reputation["u1"] > req[1].before.reputation["u1"]
  /\ reputation["u3"] = req[1].before.reputation["u3"]

\* C30: when a vote or review request whose caller is the author of the
\* prompt it is about has answered, the caller's reputation is not above what
\* the request found and the ledger has gained no row of a positive amount
\* for the caller.
C30_NoSelfReward ==
  \A q \in Procs :
    (/\ Answered(q, "vote") \/ Answered(q, "review")
     /\ req[q].before.prompts[req[q].promptId] # NoPrompt
     /\ req[q].before.prompts[req[q].promptId].authorId = req[q].userId)
      => /\ reputation[req[q].userId] <= req[q].before.reputation[req[q].userId]
         /\ \A e \in BagToSet(ledger (-) req[q].before.ledger) :
               e.userId = req[q].userId => e.changeAmount <= 0

====
